---- MODULE Spec2Model ----
(***************************************************************************)
(* A model of bson/__init__.py: the pure-Python BSON encoder and decoder.  *)
(*                                                                         *)
(* Byte strings are sequences over 0..255.  Text strings are sequences of  *)
(* Unicode code points.  Python integers are arbitrary precision; they are *)
(* kept as a sign and a little-endian base-256 magnitude, so that the      *)
(* 32-bit and 64-bit boundaries of the encoder are the real ones.          *)
(* Positions and lengths are ordinary integers (every "<i" fits).          *)
(***************************************************************************)
EXTENDS Integers, Sequences, FiniteSets, TLC

VARIABLES PY3, document, parts, data, origin, pc, outcome, docs, position

vars == <<PY3, document, parts, data, origin, pc, outcome, docs, position>>

(***************************************************************************)
(* Python sequence primitives                                              *)
(***************************************************************************)
Min(a, b) == IF a < b THEN a ELSE b

Max(a, b) == IF a < b THEN b ELSE a

\* Python's normalisation of a slice index against a sequence of length n.
SliceIndex(x, n) == IF x < 0 THEN Max(x + n, 0) ELSE Min(x, n)

\* d[i:j] (0-based, half-open, negative indices counted from the end).
PySlice(d, i, j) ==
    LET lo == SliceIndex(i, Len(d))
        hi == SliceIndex(j, Len(d))
    IN  IF lo < hi THEN SubSeq(d, lo + 1, hi) ELSE <<>>

\* d[i:]
PySliceFrom(d, i) == PySlice(d, i, Len(d))

\* d.index(b"\x00", start): the 0-based index of the first NUL at or after
\* start, or -1 where Python raises ValueError.
IndexZero(d, start) ==
    LET lo == SliceIndex(start, Len(d))
        hits == {k \in lo..(Len(d) - 1) : d[k + 1] = 0}
    IN  IF hits = {} THEN -1
        ELSE CHOOSE k \in hits : \A m \in hits : k <= m

\* The sequence s with every element mapped by 255 - x.
Invert(s) == SubSeq([i \in 1..Len(s) |-> 255 - s[i]], 1, Len(s))

\* s padded on the right with fill up to width w.
Pad(s, w, fill) ==
    SubSeq([i \in 1..w |-> IF i <= Len(s) THEN s[i] ELSE fill], 1, w)

Reverse(s) == SubSeq([i \in 1..Len(s) |-> s[Len(s) + 1 - i]], 1, Len(s))

RECURSIVE Concat(_)
\* b"".join(parts)
Concat(seqs) ==
    IF seqs = <<>> THEN <<>> ELSE Head(seqs) \o Concat(Tail(seqs))

(***************************************************************************)
(* Python integers                                                         *)
(***************************************************************************)
RECURSIVE Canon(_)
\* A magnitude without most-significant zero digits.
Canon(m) ==
    IF m = <<>> THEN <<>>
    ELSE IF m[Len(m)] = 0 THEN Canon(SubSeq(m, 1, Len(m) - 1))
    ELSE m

PyInt(neg, mag) == [neg |-> neg, mag |-> mag]

MagLess(a, b) ==
    \/ Len(a) < Len(b)
    \/ /\ Len(a) = Len(b)
       /\ \E i \in 1..Len(a) :
             /\ a[i] < b[i]
             /\ \A j \in (i + 1)..Len(a) : a[j] = b[j]

\* x < y
IntLess(x, y) ==
    IF x.neg /\ ~y.neg THEN TRUE
    ELSE IF ~x.neg /\ y.neg THEN FALSE
    ELSE IF ~x.neg THEN MagLess(x.mag, y.mag)
    ELSE MagLess(y.mag, x.mag)

\* x > y
IntGreater(x, y) == IntLess(y, x)

RECURSIVE MagIncRaw(_)
MagIncRaw(m) ==
    IF m = <<>> THEN <<1>>
    ELSE IF m[1] < 255 THEN <<m[1] + 1>> \o Tail(m)
    ELSE <<0>> \o MagIncRaw(Tail(m))

RECURSIVE MagDecRaw(_)
MagDecRaw(m) ==
    IF m[1] > 0 THEN <<m[1] - 1>> \o Tail(m)
    ELSE <<255>> \o MagDecRaw(Tail(m))

\* magnitude + 1 and magnitude - 1 (the latter for a magnitude above zero)
MagInc(m) == Canon(MagIncRaw(m))

MagDec(m) == Canon(MagDecRaw(m))

\* x + 1 and x - 1
IntSucc(x) ==
    IF x.neg
    THEN LET m == MagDec(x.mag) IN PyInt(m # <<>>, m)
    ELSE PyInt(FALSE, MagInc(x.mag))

IntPred(x) ==
    IF x.neg \/ x.mag = <<>>
    THEN PyInt(TRUE, MagInc(x.mag))
    ELSE PyInt(FALSE, MagDec(x.mag))

RECURSIVE NatMag(_)
NatMag(n) == IF n = 0 THEN <<>> ELSE <<n % 256>> \o NatMag(n \div 256)

RECURSIVE MagNat(_)
MagNat(m) == IF m = <<>> THEN 0 ELSE m[1] + 256 * MagNat(Tail(m))

\* A small integer as a Python integer, and back (for a value that fits
\* a signed 32-bit integer).
FromInt(n) == IF n < 0 THEN PyInt(TRUE, NatMag(-n)) ELSE PyInt(FALSE, NatMag(n))

ToInt(x) == IF x.neg THEN (-MagNat(MagDec(x.mag))) - 1 ELSE MagNat(x.mag)

\* A faulty bound: one more than 2^31 - 1.
MAX_INT32_plus_one == PyInt(FALSE, <<0, 0, 0, 128>>)

MAX_INT32 == PyInt(FALSE, <<255, 255, 255, 127>>)

MIN_INT32 == PyInt(TRUE, <<0, 0, 0, 128>>)

MAX_INT64 == PyInt(FALSE, <<255, 255, 255, 255, 255, 255, 255, 127>>)

MIN_INT64 == PyInt(TRUE, <<0, 0, 0, 0, 0, 0, 0, 128>>)

(***************************************************************************)
(* struct.pack / struct.unpack, little-endian                              *)
(***************************************************************************)
\* The byte width of a format and whether it is signed.
FormatWidth(fmt) == IF fmt \in {"<q", "<d"} THEN 8 ELSE 4

FormatSigned(fmt) == fmt \in {"<i", "<q"}

\* A magnitude that fits w bytes with the top bit clear.
FitsSigned(m, w) == Len(m) < w \/ (Len(m) = w /\ m[w] < 128)

\* struct.pack(fmt, x): the bytes, or struct.error when x is out of range.
struct_pack(fmt, x) ==
    LET w == FormatWidth(fmt) IN
    IF FormatSigned(fmt)
    THEN IF ~x.neg
         THEN IF FitsSigned(x.mag, w)
              THEN [err |-> "none", bytes |-> Pad(x.mag, w, 0)]
              ELSE [err |-> "struct.error", bytes |-> <<>>]
         ELSE IF FitsSigned(MagDec(x.mag), w)
              THEN [err |-> "none", bytes |-> Pad(Invert(MagDec(x.mag)), w, 255)]
              ELSE [err |-> "struct.error", bytes |-> <<>>]
    ELSE IF ~x.neg /\ Len(x.mag) <= w
         THEN [err |-> "none", bytes |-> Pad(x.mag, w, 0)]
         ELSE [err |-> "struct.error", bytes |-> <<>>]

\* struct.unpack(fmt, bytes)[0]: the integer, or struct.error when the
\* slice does not hold exactly the format's width.
struct_unpack(fmt, bytes) ==
    LET w == FormatWidth(fmt) IN
    IF Len(bytes) # w THEN [err |-> "struct.error", value |-> PyInt(FALSE, <<>>)]
    ELSE IF FormatSigned(fmt) /\ bytes[w] >= 128
    THEN [err |-> "none", value |-> PyInt(TRUE, MagInc(Canon(Invert(bytes))))]
    ELSE [err |-> "none", value |-> PyInt(FALSE, Canon(bytes))]

\* struct.pack("<i", n) of a small non-negative length.
PackLen(n) == struct_pack("<i", FromInt(n)).bytes

(***************************************************************************)
(* UTF-8                                                                   *)
(***************************************************************************)
\* One code point (below 65536, not a surrogate) as UTF-8.
EncodeCodePoint(c) ==
    IF c < 128 THEN <<c>>
    ELSE IF c < 2048 THEN <<192 + (c \div 64), 128 + (c % 64)>>
    ELSE <<224 + (c \div 4096), 128 + ((c \div 64) % 64), 128 + (c % 64)>>

RECURSIVE Utf8Encode(_)
\* text.encode("utf-8")
Utf8Encode(text) ==
    IF text = <<>> THEN <<>>
    ELSE EncodeCodePoint(Head(text)) \o Utf8Encode(Tail(text))

IsCont(b) == b >= 128 /\ b <= 191

RECURSIVE Utf8Decode(_)
\* bytes.decode("utf-8"): the text, or UnicodeDecodeError.
Utf8Decode(bytes) ==
    LET n == Len(bytes)
        bad == [err |-> "UnicodeDecodeError", text |-> <<>>]
        Then(c, k) ==
            LET rest == Utf8Decode(SubSeq(bytes, k + 1, n))
            IN  IF rest.err # "none" THEN bad
                ELSE [err |-> "none", text |-> <<c>> \o rest.text]
    IN
    IF n = 0 THEN [err |-> "none", text |-> <<>>]
    ELSE LET b == bytes[1] IN
         IF b < 128 THEN Then(b, 1)
         ELSE IF b >= 194 /\ b <= 223
         THEN IF n >= 2 /\ IsCont(bytes[2])
              THEN Then((b - 192) * 64 + (bytes[2] - 128), 2)
              ELSE bad
         ELSE IF b >= 224 /\ b <= 239
         THEN IF /\ n >= 3 /\ IsCont(bytes[2]) /\ IsCont(bytes[3])
                 /\ (b = 224 => bytes[2] >= 160)
                 /\ (b = 237 => bytes[2] <= 159)
              THEN Then((b - 224) * 4096 + (bytes[2] - 128) * 64
                        + (bytes[3] - 128), 3)
              ELSE bad
         ELSE IF b >= 240 /\ b <= 244
         THEN IF /\ n >= 4 /\ IsCont(bytes[2]) /\ IsCont(bytes[3])
                 /\ IsCont(bytes[4])
                 /\ (b = 240 => bytes[2] >= 144)
                 /\ (b = 244 => bytes[2] <= 143)
              THEN Then((b - 240) * 262144 + (bytes[2] - 128) * 4096
                        + (bytes[3] - 128) * 64 + (bytes[4] - 128), 4)
              ELSE bad
         ELSE bad

(***************************************************************************)
(* Constants of the wire format                                            *)
(***************************************************************************)
EMPTY == <<>>

ZERO == <<0>>

ONE == <<1>>

BSONNUM == <<1>>

BSONSTR == <<2>>

BSONOBJ == <<3>>

BSONARR == <<4>>

BSONBIN == <<5>>

BSONUND == <<6>>

BSONOID == <<7>>

BSONBOO == <<8>>

BSONDAT == <<9>>

BSONNUL == <<10>>

BSONRGX == <<11>>

BSONREF == <<12>>

BSONCOD == <<13>>

BSONSYM == <<14>>

BSONCWS == <<15>>

BSONINT == <<16>>

BSONTIM == <<17>>

BSONLON == <<18>>

BSONMIN == <<255>>

BSONMAX == <<127>>

\* bson.binary's UUID representations, as imported at the top of the file.
OLD_UUID_SUBTYPE == 3

JAVA_LEGACY == 5

CSHARP_LEGACY == 6

(***************************************************************************)
(* Text keys the code names                                                *)
(***************************************************************************)
\* "_id", "$ref", "$id", "$db"
KeyId == <<95, 105, 100>>

KeyRef == <<36, 114, 101, 102>>

KeyDollarId == <<36, 105, 100>>

KeyDb == <<36, 100, 98>>

RECURSIVE Str(_)
\* str(i) for i >= 0
Str(i) == IF i < 10 THEN <<48 + i>> ELSE Str(i \div 10) \o <<48 + (i % 10)>>

(***************************************************************************)
(* Mappings: a sequence of <<key, value>> pairs in iteration order         *)
(***************************************************************************)
HasKey(dict, key) == \E i \in 1..Len(dict) : dict[i][1] = key

\* dict[key], for a key the mapping holds
GetItem(dict, key) ==
    dict[CHOOSE i \in 1..Len(dict) : dict[i][1] = key][2]

\* dict[key] = value: an existing key keeps its place.
SetItem(dict, key, value) ==
    IF HasKey(dict, key)
    THEN SubSeq([i \in 1..Len(dict) |->
                    IF dict[i][1] = key THEN <<key, value>> ELSE dict[i]],
                1, Len(dict))
    ELSE Append(dict, <<key, value>>)

RECURSIVE Without(_, _)
\* The mapping after dict.pop(key, None)
Without(dict, key) ==
    IF dict = <<>> THEN <<>>
    ELSE IF Head(dict)[1] = key THEN Without(Tail(dict), key)
    ELSE <<Head(dict)>> \o Without(Tail(dict), key)

None == [t |-> "None"]

\* dict.pop(key, None)
PopOrNone(dict, key) == IF HasKey(dict, key) THEN GetItem(dict, key) ELSE None

\* SON(zip([str(i) for i in range(len(value))], value))
AsDict(value) ==
    SubSeq([i \in 1..Len(value) |-> <<Str(i - 1), value[i]>>], 1, Len(value))

(***************************************************************************)
(* Encoder                                                                 *)
(***************************************************************************)
Bytes(b) == [err |-> "none", bytes |-> b]

Fail(kind) == [err |-> kind, bytes |-> <<>>]

\* _make_c_string(string, check_null) for a text string
_make_c_string(string, check_null) ==
    IF check_null /\ \E i \in 1..Len(string) : string[i] = 0
    THEN Fail("InvalidDocument")
    ELSE Bytes(Utf8Encode(string) \o ZERO)

\* _make_c_string(string) for a byte string (the str of Python 2)
_make_c_string_bytes(string, check_null) ==
    IF check_null /\ \E i \in 1..Len(string) : string[i] = 0
    THEN Fail("InvalidDocument")
    ELSE IF Utf8Decode(string).err # "none" THEN Fail("InvalidStringData")
    ELSE Bytes(string \o ZERO)

\* The flag letters of a regular expression, in the order the code tests.
RegexFlags(flags) ==
    (IF "IGNORECASE" \in flags THEN <<105>> ELSE <<>>)
    \o (IF "LOCALE" \in flags THEN <<108>> ELSE <<>>)
    \o (IF "MULTILINE" \in flags THEN <<109>> ELSE <<>>)
    \o (IF "DOTALL" \in flags THEN <<115>> ELSE <<>>)
    \o (IF "UNICODE" \in flags THEN <<117>> ELSE <<>>)
    \o (IF "VERBOSE" \in flags THEN <<120>> ELSE <<>>)

\* uuid.UUID.bytes_le of the 16 bytes of a UUID
BytesLe(b) ==
    Reverse(SubSeq(b, 1, 4)) \o Reverse(SubSeq(b, 5, 6))
    \o Reverse(SubSeq(b, 7, 8)) \o SubSeq(b, 9, 16)

\* DBRef.as_doc()
as_doc(value) ==
    <<<<KeyRef, value.collection>>, <<KeyDollarId, value.id>>>>
    \o (IF value.database.t # "None"
        THEN <<<<KeyDb, value.database>>>> ELSE <<>>)
    \o value.extra

\* tag + name + payload, or the failure of the payload
Tagged(tag, name, p) ==
    IF p.err # "none" THEN Fail(p.err) ELSE Bytes(tag \o name \o p.bytes)

\* An integer value packed under a tag after the element name.
PackedInt(tag, name, fmt, x) == Tagged(tag, name, struct_pack(fmt, x))

\* BSONCWS + name + full_length + length + cstring + scope
CodeWithScope(name, cstring, scope) ==
    IF scope.err # "none" THEN scope
    ELSE Bytes(BSONCWS \o name
               \o PackLen(8 + Len(cstring) + Len(scope.bytes))
               \o PackLen(Len(cstring)) \o cstring \o scope.bytes)

\* length + cstring of a string payload
StringPayload(cstring) ==
    IF cstring.err # "none" THEN cstring
    ELSE Bytes(PackLen(Len(cstring.bytes)) \o cstring.bytes)

\* length + subtype + data of a binary payload
BinaryBytes(subtype, bytes) == PackLen(Len(bytes)) \o <<subtype>> \o bytes

\* BSONTIM + name + inc + time
TimestampBody(name, time, inc) ==
    IF time.err # "none" THEN time
    ELSE IF inc.err # "none" THEN inc
    ELSE Bytes(BSONTIM \o name \o inc.bytes \o time.bytes)

\* BSONRGX + name + pattern + flags
RegexBody(name, pattern, flags) ==
    IF pattern.err # "none" THEN pattern
    ELSE Bytes(BSONRGX \o name \o pattern.bytes \o flags.bytes)

\* The bytes and the subtype under which a UUID is written.
UuidData(bytes, uuid_subtype) ==
    IF uuid_subtype = JAVA_LEGACY
    THEN Reverse(SubSeq(bytes, 1, 8)) \o Reverse(SubSeq(bytes, 9, 16))
    ELSE IF uuid_subtype = CSHARP_LEGACY THEN BytesLe(bytes)
    ELSE bytes

UuidSubtype(uuid_subtype) ==
    IF uuid_subtype \in {JAVA_LEGACY, CSHARP_LEGACY}
    THEN OLD_UUID_SUBTYPE ELSE uuid_subtype

RECURSIVE _element_to_bson(_, _, _, _)
RECURSIVE _dict_to_bson(_, _, _, _)
RECURSIVE EncodeItems(_, _, _, _)
RECURSIVE ElementBody(_, _, _, _, _)

\* The typed payload of _element_to_bson, after the key has been checked.
ElementBody(name, key, value, check_keys, uuid_subtype) ==
    IF value.t = "float" THEN Bytes(BSONNUM \o name \o value.v)
    ELSE IF value.t = "UUID" THEN
        Bytes(BSONBIN \o name
              \o BinaryBytes(UuidSubtype(uuid_subtype),
                             UuidData(value.v, uuid_subtype)))
    ELSE IF value.t = "Binary" THEN
        Bytes(BSONBIN \o name
              \o BinaryBytes(value.subtype,
                             IF value.subtype = 2
                             THEN PackLen(Len(value.v)) \o value.v
                             ELSE value.v))
    ELSE IF value.t = "Code" THEN
        IF ~value.scoped \/ value.scope = <<>>
        THEN Tagged(BSONCOD, name, StringPayload(_make_c_string(value.v, FALSE)))
        ELSE CodeWithScope(name, _make_c_string(value.v, FALSE).bytes,
                           _dict_to_bson(value.scope, FALSE, uuid_subtype, FALSE))
    ELSE IF value.t = "bytes" THEN
        IF PY3
        THEN Bytes(BSONBIN \o name \o BinaryBytes(0, value.v))
        ELSE Tagged(BSONSTR, name,
                    StringPayload(_make_c_string_bytes(value.v, FALSE)))
    ELSE IF value.t = "str" THEN
        Tagged(BSONSTR, name, StringPayload(_make_c_string(value.v, FALSE)))
    ELSE IF value.t = "dict" THEN
        Tagged(BSONOBJ, name,
               _dict_to_bson(value.v, check_keys, uuid_subtype, FALSE))
    ELSE IF value.t = "list" THEN
        Tagged(BSONARR, name,
               _dict_to_bson(AsDict(value.v), check_keys, uuid_subtype, FALSE))
    ELSE IF value.t = "ObjectId" THEN Bytes(BSONOID \o name \o value.v)
    ELSE IF value.t = "bool" THEN
        Bytes(BSONBOO \o name \o (IF value.v THEN ONE ELSE ZERO))
    ELSE IF value.t = "BSONInt64" THEN PackedInt(BSONLON, name, "<q", value.v)
    ELSE IF value.t = "int" THEN
        IF IntGreater(value.v, MAX_INT64) \/ IntLess(value.v, MIN_INT64)
        THEN Fail("OverflowError")
        ELSE IF IntGreater(value.v, MAX_INT32) \/ IntLess(value.v, MIN_INT32)
        THEN PackedInt(BSONLON, name, "<q", value.v)
        ELSE PackedInt(BSONINT, name, "<i", value.v)
    ELSE IF ~PY3 /\ value.t = "long" THEN
        IF IntGreater(value.v, MAX_INT64) \/ IntLess(value.v, MIN_INT64)
        THEN Fail("OverflowError")
        ELSE PackedInt(BSONLON, name, "<q", value.v)
    ELSE IF value.t = "datetime" THEN
        PackedInt(BSONDAT, name, "<q", value.millis)
    ELSE IF value.t = "Timestamp" THEN
        TimestampBody(name, struct_pack("<I", value.time),
                      struct_pack("<I", value.inc))
    ELSE IF value.t = "None" THEN Bytes(BSONNUL \o name)
    ELSE IF value.t = "Regex" THEN
        RegexBody(name, _make_c_string(value.pattern, TRUE),
                  _make_c_string(RegexFlags(value.flags), FALSE))
    ELSE IF value.t = "DBRef" THEN
        _element_to_bson(key, [t |-> "dict", v |-> as_doc(value)],
                         FALSE, uuid_subtype)
    ELSE IF value.t = "MinKey" THEN Bytes(BSONMIN \o name)
    ELSE IF value.t = "MaxKey" THEN Bytes(BSONMAX \o name)
    ELSE Fail("InvalidDocument")

\* The element once its name has been made
Named(name, key, value, check_keys, uuid_subtype) ==
    IF name.err # "none" THEN name
    ELSE ElementBody(name.bytes, key, value, check_keys, uuid_subtype)

_element_to_bson(key, value, check_keys, uuid_subtype) ==
    IF check_keys /\ Len(key) > 0 /\ key[1] = 36 THEN Fail("InvalidDocument")
    ELSE IF check_keys /\ \E i \in 1..Len(key) : key[i] = 46
    THEN Fail("InvalidDocument")
    ELSE Named(_make_c_string(key, TRUE), key, value, check_keys, uuid_subtype)

\* elements.append(e) before the rest of the loop runs
Appended(e, rest) ==
    IF e.err # "none" THEN Fail(e.err)
    ELSE IF rest.err # "none" THEN rest
    ELSE Bytes(e.bytes \o rest.bytes)

\* The loop of _dict_to_bson over iteritems(dict): the joined element
\* bytes, or the first failure.
EncodeItems(items, check_keys, uuid_subtype, top_level) ==
    IF items = <<>> THEN Bytes(<<>>)
    ELSE IF ~top_level \/ Head(items)[1] # KeyId
    THEN Appended(_element_to_bson(Head(items)[1], Head(items)[2],
                                   check_keys, uuid_subtype),
                  EncodeItems(Tail(items), check_keys, uuid_subtype, top_level))
    ELSE EncodeItems(Tail(items), check_keys, uuid_subtype, top_level)

\* A faulty test: "_id" in front at every level.
IdFirstAnywhere(dict, top_level) == HasKey(dict, KeyId)

\* Whether _dict_to_bson puts the "_id" element in front.
IdFirst(dict, top_level) == top_level /\ HasKey(dict, KeyId)

\* A faulty envelope: the length leaves out the trailing NUL.
EnvelopeShort(encoded) == PackLen(Len(encoded) + 4) \o encoded \o ZERO

\* struct.pack("<i", length) + encoded + ZERO, length = len(encoded) + 5
Envelope(encoded) == PackLen(Len(encoded) + 5) \o encoded \o ZERO

\* The envelope around the elements, or their failure
Enveloped(elements) ==
    IF elements.err # "none" THEN elements ELSE Bytes(Envelope(elements.bytes))

_dict_to_bson(dict, check_keys, uuid_subtype, top_level) ==
    Enveloped(
        Appended(IF IdFirst(dict, top_level)
                 THEN _element_to_bson(KeyId, GetItem(dict, KeyId),
                                       check_keys, uuid_subtype)
                 ELSE Bytes(<<>>),
                 EncodeItems(dict, check_keys, uuid_subtype, top_level)))

\* BSON.encode(document, check_keys, uuid_subtype)
encode(doc, check_keys, uuid_subtype) ==
    _dict_to_bson(doc, check_keys, uuid_subtype, TRUE)

(***************************************************************************)
(* Decoder.  A reader returns the value and the next position, or the      *)
(* kind of the exception it raises.  "nontermination" stands for a call    *)
(* that never returns.                                                     *)
(***************************************************************************)
Ok(value, pos) == [err |-> "none", value |-> value, position |-> pos]

Raise(kind) == [err |-> kind, value |-> None, position |-> 0]

\* The rest of a reader after a step that may raise.
Bind(r, K(_)) == IF r.err # "none" THEN Raise(r.err) ELSE K(r)

\* struct.unpack(fmt, data[position:position + width])[0] and the position
\* after it; struct.error when the slice is short.
Unpacked(u, next) == IF u.err # "none" THEN Raise(u.err) ELSE Ok(u.value, next)

UnpackAt(fmt, d, pos) ==
    Unpacked(struct_unpack(fmt, PySlice(d, pos, pos + FormatWidth(fmt))),
             pos + FormatWidth(fmt))

\* The same with struct.error caught and InvalidBSON raised.
Caught(r) == IF r.err # "none" THEN Raise("InvalidBSON") ELSE r

\* _get_int(data, position, unsigned=...)
_get_int(d, pos, unsigned) ==
    Caught(UnpackAt(IF unsigned THEN "<I" ELSE "<i", d, pos))

\* data[position:end].decode("utf-8") and position = end + 1
Decoded(value, next) ==
    IF value.err # "none" THEN Raise(value.err) ELSE Ok(value.text, next)

CStringTo(d, pos, end) ==
    IF end = -1 THEN Raise("InvalidBSON")
    ELSE Decoded(Utf8Decode(PySlice(d, pos, end)), end + 1)

\* _get_c_string(data, position): scan for the next NUL.
_get_c_string(d, pos) == CStringTo(d, pos, IndexZero(d, pos))

\* _get_c_string(data, position, length)
_get_c_string_length(d, pos, length) ==
    Decoded(Utf8Decode(PySlice(d, pos, pos + length)), pos + length + 1)

\* A reader's value wrapped as a value of the given type.
Typed(t, r) == IF r.err # "none" THEN r ELSE Ok([t |-> t, v |-> r.value], r.position)

\* The float whose binary64 image is the 8 bytes read.
FloatOf(bytes, next) ==
    IF Len(bytes) # FormatWidth("<d") THEN Raise("struct.error")
    ELSE Ok([t |-> "float", v |-> bytes], next)

_get_number(d, pos) == FloatOf(PySlice(d, pos, pos + 8), pos + 8)

\* _get_string once the length has been read
StringBody(d, pos, length) ==
    IF length <= 0 \/ (Len(d) - pos - 4) < length
    THEN Raise("InvalidBSON")
    ELSE IF PySlice(d, pos + 4 + length - 1, pos + 4 + length) # ZERO
    THEN Raise("InvalidBSON")
    ELSE _get_c_string_length(d, pos + 4, length - 1)

\* _get_string, before the text is wrapped as a value
GetString(d, pos) ==
    Bind(UnpackAt("<i", d, pos), LAMBDA u : StringBody(d, pos, ToInt(u.value)))

_get_string(d, pos) == Typed("str", GetString(d, pos))

\* ObjectId(oid) of bson.objectid: twelve bytes, or InvalidId.
ObjectId(oid, next) ==
    IF Len(oid) = 12 THEN Ok([t |-> "ObjectId", v |-> oid], next)
    ELSE Raise("InvalidId")

_get_oid(d, pos) == ObjectId(PySlice(d, pos, pos + 12), pos + 12)

\* A faulty reader: the byte compared with ZERO.
_get_boolean_inverted(d, pos) ==
    Ok([t |-> "bool", v |-> (PySlice(d, pos, pos + 1) = ZERO)], pos + 1)

_get_boolean(d, pos) ==
    Ok([t |-> "bool", v |-> (PySlice(d, pos, pos + 1) = ONE)], pos + 1)

\* The datetime is kept as its millisecond count: seconds and microseconds
\* are (millis - millis % 1000) / 1000 and (millis % 1000) * 1000.  The
\* year range of datetime is not modelled.
_get_date(d, pos) ==
    Bind(UnpackAt("<q", d, pos),
         LAMBDA u : Ok([t |-> "datetime", millis |-> u.value, submilli |-> 0],
                       u.position))

_get_long(d, pos) == Typed("BSONInt64", UnpackAt("<q", d, pos))

_get_timestamp(d, pos) ==
    Bind(_get_int(d, pos, TRUE), LAMBDA inc :
    Bind(_get_int(d, inc.position, TRUE), LAMBDA timestamp :
        Ok([t |-> "Timestamp", time |-> timestamp.value, inc |-> inc.value],
           timestamp.position)))

_get_regex(d, pos) ==
    Bind(_get_c_string(d, pos), LAMBDA pattern :
    Bind(_get_c_string(d, pattern.position), LAMBDA bson_flags :
        Ok([t |-> "Regex", pattern |-> pattern.value,
            bson_flags |-> bson_flags.value], bson_flags.position)))

_get_code(d, pos) ==
    Bind(GetString(d, pos), LAMBDA code :
        Ok([t |-> "Code", v |-> code.value, scoped |-> FALSE, scope |-> <<>>],
           code.position))

_get_ref(d, pos) ==
    Bind(GetString(d, pos), LAMBDA collection :
    Bind(_get_oid(d, collection.position), LAMBDA oid :
        Ok([t |-> "DBRef", collection |-> [t |-> "str", v |-> collection.value],
            id |-> oid.value, database |-> None, extra |-> <<>>],
           oid.position)))

\* The bytes handed to uuid.UUID for a payload read under a UUID
\* representation.
UuidBytes(bytes, uuid_subtype) ==
    IF uuid_subtype = JAVA_LEGACY
    THEN Reverse(PySlice(bytes, 0, 8)) \o Reverse(PySlice(bytes, 8, 16))
    ELSE IF uuid_subtype = CSHARP_LEGACY /\ Len(bytes) = 16 THEN BytesLe(bytes)
    ELSE bytes

\* uuid.UUID(bytes=...) wants sixteen bytes.
Uuid(bytes, next) ==
    IF Len(bytes) = 16 THEN Ok([t |-> "UUID", v |-> bytes], next)
    ELSE Raise("ValueError")

\* The payload slice of _get_binary: data[position:position + length]
BinaryPayload(d, pos, length) == PySlice(d, pos, pos + length)

\* _get_binary once subtype and length are settled: the value and
\* position += length
BinaryBody(d, pos, subtype, length, uuid_subtype) ==
    IF subtype \in {3, 4}
    THEN Uuid(UuidBytes(BinaryPayload(d, pos, length), uuid_subtype), pos + length)
    ELSE IF PY3 /\ subtype = 0
    THEN Ok([t |-> "bytes", v |-> BinaryPayload(d, pos, length)], pos + length)
    ELSE Ok([t |-> "Binary", v |-> BinaryPayload(d, pos, length),
             subtype |-> subtype], pos + length)

\* _get_binary of subtype 2: the second length must be the first less 4
BinaryOld(d, pos, length, uuid_subtype) ==
    Bind(_get_int(d, pos, FALSE), LAMBDA length2 :
        IF ToInt(length2.value) # length - 4 THEN Raise("InvalidBSON")
        ELSE BinaryBody(d, length2.position, 2, ToInt(length2.value),
                        uuid_subtype))

\* _get_binary from the subtype byte on: ord(b"") raises TypeError
BinarySubtype(d, pos, st, length, uuid_subtype) ==
    IF st = <<>> THEN Raise("TypeError")
    ELSE IF st[1] = 2 THEN BinaryOld(d, pos + 1, length, uuid_subtype)
    ELSE BinaryBody(d, pos + 1, st[1], length, uuid_subtype)

_get_binary(d, pos, uuid_subtype) ==
    Bind(_get_int(d, pos, FALSE), LAMBDA length :
        BinarySubtype(d, length.position,
                      PySlice(d, length.position, length.position + 1),
                      ToInt(length.value), uuid_subtype))

\* The tags of _element_getter
Tags ==
    {BSONNUM, BSONSTR, BSONOBJ, BSONARR, BSONBIN, BSONUND, BSONOID, BSONBOO,
     BSONDAT, BSONNUL, BSONRGX, BSONREF, BSONCOD, BSONSYM, BSONCWS, BSONINT,
     BSONTIM, BSONLON, BSONMIN, BSONMAX}

RECURSIVE ArrayItems(_, _)
\* The loop of _get_array: obj["0"], obj["1"], ... up to the first KeyError
ArrayItems(obj, i) ==
    IF HasKey(obj, Str(i))
    THEN <<GetItem(obj, Str(i))>> \o ArrayItems(obj, i + 1)
    ELSE <<>>

\* Whether _get_object returns a DBRef in place of the document
IsRef(object) == HasKey(object, KeyRef)

\* DBRef(object.pop("$ref"), object.pop("$id", None),
\*       object.pop("$db", None), object)
MakeDBRef(object) ==
    [t |-> "DBRef", collection |-> GetItem(object, KeyRef),
     id |-> PopOrNone(object, KeyDollarId),
     database |-> PopOrNone(object, KeyDb),
     extra |-> Without(Without(Without(object, KeyRef), KeyDollarId), KeyDb)]

\* What _get_object returns for the decoded mapping
ObjectValue(object) ==
    IF IsRef(object) THEN MakeDBRef(object) ELSE [t |-> "dict", v |-> object]

\* The last position at which the loop of _elements_to_dict still reads
\* an element: end = len(data) - 1
LoopEnd(d) == Len(d) - 1

RECURSIVE _get_object(_, _, _)
RECURSIVE ObjectBody(_, _, _, _)
RECURSIVE _get_array(_, _, _)
RECURSIVE _get_code_w_scope(_, _, _)
RECURSIVE _elements_to_dict(_, _)
RECURSIVE ElementsLoop(_, _, _, _, _)
RECURSIVE _element_to_dict(_, _, _)
RECURSIVE Getter(_, _, _, _)

\* _get_object once obj_size has been read
ObjectBody(d, pos, obj_size, uuid_subtype) ==
    IF PySlice(d, pos + obj_size - 1, pos + obj_size) # ZERO
    THEN Raise("InvalidBSON")
    ELSE Bind(_elements_to_dict(PySlice(d, pos + 4, pos + obj_size - 1),
                                uuid_subtype),
              LAMBDA object : Ok(ObjectValue(object.value), pos + obj_size))

_get_object(d, pos, uuid_subtype) ==
    Bind(UnpackAt("<i", d, pos),
         LAMBDA u : ObjectBody(d, pos, ToInt(u.value), uuid_subtype))

\* _get_array: indexing a DBRef raises TypeError
_get_array(d, pos, uuid_subtype) ==
    Bind(_get_object(d, pos, uuid_subtype), LAMBDA obj :
        IF obj.value.t # "dict" THEN Raise("TypeError")
        ELSE Ok([t |-> "list", v |-> ArrayItems(obj.value.v, 0)], obj.position))

\* _get_code_w_scope: Code(code, scope) wants a dict for its scope
_get_code_w_scope(d, pos, uuid_subtype) ==
    Bind(_get_int(d, pos, FALSE), LAMBDA total :
    Bind(GetString(d, total.position), LAMBDA code :
    Bind(_get_object(d, code.position, uuid_subtype), LAMBDA scope :
        IF scope.value.t # "dict" THEN Raise("TypeError")
        ELSE Ok([t |-> "Code", v |-> code.value, scoped |-> TRUE,
                 scope |-> scope.value.v], scope.position))))

\* Whether the dispatch table has the tag: _element_getter[element_type]
KnownTag(element_type) == element_type \in Tags

\* _element_getter[element_type](data, position, ...)
Getter(element_type, d, pos, uuid_subtype) ==
    IF ~KnownTag(element_type) THEN Raise("KeyError")
    ELSE IF element_type = BSONNUM THEN _get_number(d, pos)
    ELSE IF element_type \in {BSONSTR, BSONSYM} THEN _get_string(d, pos)
    ELSE IF element_type = BSONOBJ THEN _get_object(d, pos, uuid_subtype)
    ELSE IF element_type = BSONARR THEN _get_array(d, pos, uuid_subtype)
    ELSE IF element_type = BSONBIN THEN _get_binary(d, pos, uuid_subtype)
    ELSE IF element_type \in {BSONUND, BSONNUL} THEN Ok(None, pos)
    ELSE IF element_type = BSONOID THEN _get_oid(d, pos)
    ELSE IF element_type = BSONBOO THEN _get_boolean(d, pos)
    ELSE IF element_type = BSONDAT THEN _get_date(d, pos)
    ELSE IF element_type = BSONRGX THEN _get_regex(d, pos)
    ELSE IF element_type = BSONREF THEN _get_ref(d, pos)
    ELSE IF element_type = BSONCOD THEN _get_code(d, pos)
    ELSE IF element_type = BSONCWS THEN _get_code_w_scope(d, pos, uuid_subtype)
    ELSE IF element_type = BSONINT THEN Typed("int", _get_int(d, pos, FALSE))
    ELSE IF element_type = BSONTIM THEN _get_timestamp(d, pos)
    ELSE IF element_type = BSONLON THEN _get_long(d, pos)
    ELSE IF element_type = BSONMIN THEN Ok([t |-> "MinKey"], pos)
    ELSE Ok([t |-> "MaxKey"], pos)

\* (element_name, value, position)
Element(key, g) ==
    [err |-> g.err, key |-> key, value |-> g.value, position |-> g.position]

_element_to_dict(d, pos, uuid_subtype) ==
    Bind(_get_c_string(d, pos + 1), LAMBDA element_name :
        Element(element_name.value,
                Getter(PySlice(d, pos, pos + 1), d, element_name.position,
                       uuid_subtype)))

\* The while loop of _elements_to_dict.  The loop's control depends on
\* position alone, so a position met a second time is a loop that never
\* ends; seen holds the positions met so far.
ElementsLoop(d, pos, result, seen, uuid_subtype) ==
    IF ~(pos < LoopEnd(d)) THEN Ok(result, pos)
    ELSE IF pos \in seen THEN Raise("nontermination")
    ELSE Bind(_element_to_dict(d, pos, uuid_subtype), LAMBDA e :
             ElementsLoop(d, e.position, SetItem(result, e.key, e.value),
                          seen \cup {pos}, uuid_subtype))

_elements_to_dict(d, uuid_subtype) == ElementsLoop(d, 0, <<>>, {}, uuid_subtype)

\* (dct, data[obj_size:])
WithRemainder(dct, remainder) ==
    [err |-> "none", value |-> dct.value, position |-> 0,
     remainder |-> remainder]

\* _bson_to_dict once obj_size has been read
BsonBody(d, obj_size, uuid_subtype) ==
    IF Len(d) < obj_size THEN Raise("InvalidBSON")
    ELSE IF obj_size # Len(d) \/ PySlice(d, obj_size - 1, obj_size) # ZERO
    THEN Raise("InvalidBSON")
    ELSE Bind(_elements_to_dict(PySlice(d, 4, obj_size - 1), uuid_subtype),
              LAMBDA dct : WithRemainder(dct, PySliceFrom(d, obj_size)))

_bson_to_dict(d, uuid_subtype) ==
    Bind(UnpackAt("<i", d, 0),
         LAMBDA u : BsonBody(d, ToInt(u.value), uuid_subtype))

\* (document, _) = _bson_to_dict(...)
DocumentOf(r) == [err |-> r.err, value |-> r.value]

\* BSON.decode(): the document, or the exception's kind
decode(d, uuid_subtype) == DocumentOf(_bson_to_dict(d, uuid_subtype))

\* remainder == EMPTY, and False on any exception; a decode that never
\* returns leaves is_valid without a result.
Validity(r) ==
    IF r.err = "nontermination" THEN "nontermination"
    ELSE IF r.err # "none" THEN "False"
    ELSE IF r.remainder = EMPTY THEN "True" ELSE "False"

\* is_valid(bson)
is_valid(bson) == Validity(_bson_to_dict(bson, OLD_UUID_SUBTYPE))

(***************************************************************************)
(* decode_all, one iteration of its while loop at a time                   *)
(***************************************************************************)
\* The last position at which decode_all still reads a document:
\* end = len(data) - 1
AllEnd(d) == Len(d) - 1

\* One iteration at position pos: the document appended and the next
\* position, or the exception's kind.  Every exception that is not
\* InvalidBSON is re-raised as InvalidBSON.
Retagged(r) ==
    IF r.err \in {"none", "nontermination"} THEN r ELSE Raise("InvalidBSON")

\* The iteration once obj_size has been read
AllBody(d, pos, obj_size, uuid_subtype) ==
    IF Len(d) - pos < obj_size THEN Raise("InvalidBSON")
    ELSE IF PySlice(d, pos + obj_size - 1, pos + obj_size) # ZERO
    THEN Raise("InvalidBSON")
    ELSE Bind(_elements_to_dict(PySlice(d, pos + 4, pos + obj_size - 1),
                                uuid_subtype),
              LAMBDA dct : Ok(dct.value, pos + obj_size))

DecodeAllBody(d, pos, uuid_subtype) ==
    Retagged(Bind(UnpackAt("<i", d, pos),
                  LAMBDA u : AllBody(d, pos, ToInt(u.value), uuid_subtype)))

(***************************************************************************)
(* Bounds and input domains                                                *)
(***************************************************************************)
\* Elements (keys and array items, at every level together) of a document.
MaxElems == 2

\* Distance of the integer inputs from each boundary of the encoder.
MaxDelta == 2

\* Bytes appended after an encoded document.
MaxTail == 2

\* Payload bytes of a hand-made element.
MaxPayload == 5

\* Documents concatenated for decode_all.
MaxDocs == 2

\* Bytes left over after the last document given to decode_all.
MaxLeftover == 3

KeyA == <<97>>

Keys == {KeyA, KeyId, KeyRef, KeyDollarId}

Two31 == PyInt(FALSE, <<0, 0, 0, 128>>)

Leaves ==
    {[t |-> "int", v |-> FromInt(1)], [t |-> "int", v |-> Two31],
     [t |-> "str", v |-> <<0, 233>>], [t |-> "bool", v |-> TRUE], None}

RECURSIVE DocsOf(_)
RECURSIVE ListsOf(_)
RECURSIVE ValuesOf(_)

\* Values holding at most n elements inside them.
ValuesOf(n) ==
    Leaves
    \cup {[t |-> "dict", v |-> d] : d \in DocsOf(n)}
    \cup {[t |-> "list", v |-> l] : l \in ListsOf(n)}
    \cup {[t |-> "Code", v |-> <<120>>, scoped |-> TRUE, scope |-> d] :
             d \in DocsOf(n) \ {<<>>}}

\* Mappings with distinct keys holding at most n elements at all levels.
DocsOf(n) ==
    IF n = 0 THEN {<<>>}
    ELSE {<<>>} \cup
         UNION {UNION {{<<<<k, v>>>> \o rest :
                          k \in {x \in Keys : ~HasKey(rest, x)},
                          v \in ValuesOf(m)} :
                       rest \in DocsOf(n - 1 - m)} :
                m \in 0..(n - 1)}

\* Sequences holding at most n elements at all levels.
ListsOf(n) ==
    IF n = 0 THEN {<<>>}
    ELSE {<<>>} \cup
         UNION {{<<v>> \o rest : v \in ValuesOf(m), rest \in ListsOf(n - 1 - m)} :
                m \in 0..(n - 1)}

RECURSIVE Around(_, _)
\* x - n .. x + n
Around(x, n) ==
    IF n = 0 THEN {x}
    ELSE Around(x, n - 1) \cup Around(IntPred(x), n - 1)
         \cup Around(IntSucc(x), n - 1)

IntInputs ==
    UNION {Around(x, MaxDelta) :
           x \in {FromInt(0), MAX_INT32, MIN_INT32, MAX_INT64, MIN_INT64}}

IntDocs ==
    {<<<<KeyA, [t |-> ty, v |-> x]>>>> :
        ty \in {"int", "long", "BSONInt64"}, x \in IntInputs}

OtherLeaves ==
    {[t |-> "float", v |-> <<0, 0, 0, 0, 0, 0, 240, 63>>],
     [t |-> "UUID", v |-> <<0, 1, 2, 3, 4, 5, 6, 7, 8, 9, 10, 11, 12, 13, 14, 15>>],
     [t |-> "Binary", v |-> <<1, 2>>, subtype |-> 2],
     [t |-> "Binary", v |-> <<1, 2>>, subtype |-> 128],
     [t |-> "Code", v |-> <<120>>, scoped |-> FALSE, scope |-> <<>>],
     [t |-> "bytes", v |-> <<104, 105>>],
     [t |-> "bytes", v |-> <<255>>],
     [t |-> "ObjectId", v |-> <<1, 2, 3, 4, 5, 6, 7, 8, 9, 10, 11, 12>>],
     [t |-> "bool", v |-> FALSE],
     [t |-> "datetime", millis |-> FromInt(-1), submilli |-> 999],
     [t |-> "Timestamp", time |-> FromInt(5), inc |-> FromInt(7)],
     [t |-> "Timestamp", time |-> FromInt(-1), inc |-> FromInt(7)],
     [t |-> "Regex", pattern |-> <<97>>, flags |-> {"MULTILINE", "IGNORECASE"}],
     [t |-> "Regex", pattern |-> <<0>>, flags |-> {}],
     [t |-> "DBRef", collection |-> [t |-> "str", v |-> <<99>>],
      id |-> [t |-> "int", v |-> FromInt(1)], database |-> None,
      extra |-> <<<<KeyId, None>>, <<KeyA, None>>>>],
     [t |-> "MinKey"], [t |-> "MaxKey"], [t |-> "set"]}

OtherDocs ==
    {<<<<k, v>>>> : k \in {KeyA, <<46>>, <<97, 0>>}, v \in OtherLeaves}

\* A nested mapping whose "_id" is not its first key.
IdLast == <<<<KeyA, [t |-> "int", v |-> FromInt(1)]>>, <<KeyId, None>>>>

\* Documents that nest deeper than DocsOf reaches: "_id" out of place at
\* the top and below it, and a document, an array and a code scope together.
DeepDocs ==
    {<<<<KeyA, [t |-> "dict", v |-> IdLast]>>,
       <<KeyId, [t |-> "int", v |-> FromInt(1)]>>>>,
     <<<<KeyA, [t |-> "list",
                v |-> <<[t |-> "dict", v |-> IdLast],
                        [t |-> "str", v |-> <<0, 233>>]>>]>>,
       <<KeyId, [t |-> "int", v |-> Two31]>>>>,
     <<<<KeyA, [t |-> "list", v |-> <<[t |-> "dict", v |-> IdLast]>>]>>,
       <<KeyDollarId,
         [t |-> "Code", v |-> <<120>>, scoped |-> TRUE, scope |-> IdLast]>>,
       <<KeyId, [t |-> "dict", v |-> <<<<KeyA, [t |-> "list", v |-> <<>>]>>>>]>>>>,
     <<<<KeyA, [t |-> "str", v |-> <<97>>]>>,
       <<KeyId, [t |-> "bool", v |-> TRUE]>>,
       <<KeyDollarId, None>>>>,
     <<<<KeyA, [t |-> "dict",
                v |-> <<<<KeyRef, [t |-> "str", v |-> <<99>>]>>,
                        <<KeyDollarId, [t |-> "int", v |-> FromInt(1)]>>,
                        <<KeyA, None>>>>]>>>>}

Documents == DocsOf(MaxElems) \cup IntDocs \cup OtherDocs \cup DeepDocs

RECURSIVE HostOk(_, _)
RECURSIVE HostOkAll(_, _)
\* Whether a value can exist under the interpreter: Python 3 has no long,
\* and an int of Python 2 is at most sys.maxint (a 64-bit build).
HostOk(value, py3) ==
    IF value.t = "long" THEN ~py3
    ELSE IF value.t = "int"
    THEN py3 \/ ~(IntGreater(value.v, MAX_INT64) \/ IntLess(value.v, MIN_INT64))
    ELSE IF value.t = "dict" THEN HostOkAll(value.v, py3)
    ELSE IF value.t = "list" THEN HostOkAll(AsDict(value.v), py3)
    ELSE IF value.t = "Code" THEN HostOkAll(value.scope, py3)
    ELSE TRUE

HostOkAll(dict, py3) == \A i \in 1..Len(dict) : HostOk(dict[i][2], py3)

(***************************************************************************)
(* The state machine                                                       *)
(***************************************************************************)
NoOutcome == [op |-> "none", err |-> "none", value |-> <<>>]

Outcome(op, r) == [op |-> op, err |-> r.err, value |-> r.value]

Init ==
    /\ PY3 \in BOOLEAN
    /\ document \in {d \in Documents : HostOkAll(d, PY3)}
    /\ parts = <<>>
    /\ data = <<>>
    /\ origin = "none"
    /\ pc = "start"
    /\ outcome = NoOutcome
    /\ docs = <<>>
    /\ position = 0

\* The buffer encode returns, or the exception it raises
Encoded(r) ==
    /\ data' = r.bytes
    /\ pc' = IF r.err = "none" THEN "encoded" ELSE "raised"
    /\ outcome' = [op |-> "encode", err |-> r.err, value |-> <<>>]

\* BSON.encode(document, check_keys)
Encode ==
    /\ pc = "start"
    /\ \E check_keys \in BOOLEAN :
          Encoded(encode(document, check_keys, OLD_UUID_SUBTYPE))
    /\ origin' = "encode"
    /\ UNCHANGED <<PY3, document, parts, docs, position>>

\* BSON(data).decode()
Decode ==
    /\ pc = "encoded"
    /\ outcome' = Outcome("decode", decode(data, OLD_UUID_SUBTYPE))
    /\ pc' = "done"
    /\ UNCHANGED <<PY3, document, parts, data, origin, docs, position>>

\* is_valid(data)
IsValid ==
    /\ pc = "encoded"
    /\ outcome' = [op |-> "is_valid", err |-> "none", value |-> is_valid(data)]
    /\ pc' = "done"
    /\ UNCHANGED <<PY3, document, parts, data, origin, docs, position>>

Next == Encode \/ Decode \/ IsValid

Spec == Init /\ [][Next]_vars

(***************************************************************************)
(* Damaged buffers: a prefix of an encoded document, or an encoded         *)
(* document with bytes after it                                            *)
(***************************************************************************)
RECURSIVE SeqsOver(_, _)
\* The sequences over a set of bytes of length at most n
SeqsOver(S, n) ==
    IF n = 0 THEN {<<>>}
    ELSE SeqsOver(S, n - 1)
         \cup {Append(q, b) : q \in SeqsOver(S, n - 1), b \in S}

TailBytes == {0, 5}

InitTrunc ==
    /\ PY3 \in BOOLEAN
    /\ document \in DocsOf(1)
    /\ parts = <<>>
    /\ data = <<>>
    /\ origin = "none"
    /\ pc = "start"
    /\ outcome = NoOutcome
    /\ docs = <<>>
    /\ position = 0

\* data[:k] for some k < len(data)
Truncate ==
    /\ pc = "encoded" /\ origin = "encode"
    /\ \E k \in 0..(Len(data) - 1) : data' = PySlice(data, 0, k)
    /\ origin' = "truncate"
    /\ UNCHANGED <<PY3, document, parts, pc, outcome, docs, position>>

\* data + tail for some bytes tail
AppendTail ==
    /\ pc = "encoded" /\ origin = "encode"
    /\ \E tail \in SeqsOver(TailBytes, MaxTail) \ {<<>>} : data' = data \o tail
    /\ origin' = "tail"
    /\ UNCHANGED <<PY3, document, parts, pc, outcome, docs, position>>

NextTrunc == Encode \/ Truncate \/ AppendTail \/ Decode \/ IsValid

SpecTrunc == InitTrunc /\ [][NextTrunc]_vars

(***************************************************************************)
(* Hand-made buffers: one element of any tag inside a correct envelope     *)
(***************************************************************************)
RawTags == Tags \cup {<<0>>, <<19>>, <<128>>}

RawBytes == {0, 1, 5}

\* The key "a" and its NUL
RawName == <<97, 0>>

RawBuffers ==
    {Envelope(tag \o RawName \o payload) :
        tag \in RawTags, payload \in SeqsOver(RawBytes, MaxPayload)}

\* Envelopes around one byte that is no element: 06 00 00 00 XX 00
StrayBuffers == {Envelope(<<x>>) : x \in RawBytes \cup {65}}

\* Envelopes around an element whose length field is negative: an embedded
\* document of size -2 after a null element with the empty key, and a
\* binary of length -8 under the key "a"
BackwardBuffers ==
    {Envelope(BSONNUL \o ZERO \o BSONOBJ \o ZERO \o <<254, 255, 255, 255>>),
     Envelope(BSONBIN \o RawName \o <<248, 255, 255, 255>> \o ZERO \o ZERO)}

InitRaw ==
    /\ PY3 \in BOOLEAN
    /\ document = <<>>
    /\ parts = <<>>
    /\ \/ data \in RawBuffers /\ origin = "raw"
       \/ data \in StrayBuffers /\ origin = "stray"
       \/ data \in BackwardBuffers /\ origin = "backward"
    /\ pc = "encoded"
    /\ outcome = NoOutcome
    /\ docs = <<>>
    /\ position = 0

NextRaw == Decode \/ IsValid

SpecRaw == InitRaw /\ [][NextRaw]_vars

(***************************************************************************)
(* decode_all over concatenated documents, with or without leftover bytes  *)
(***************************************************************************)
AllDocuments ==
    {<<>>, <<<<KeyA, [t |-> "int", v |-> FromInt(1)]>>>>,
     <<<<KeyA, [t |-> "bool", v |-> TRUE]>>, <<KeyId, None>>>>}

RECURSIVE EncodeAll(_)
\* The encodings of the documents, one after the other
EncodeAll(ds) ==
    IF ds = <<>> THEN <<>>
    ELSE encode(Head(ds), FALSE, OLD_UUID_SUBTYPE).bytes \o EncodeAll(Tail(ds))

InitAll ==
    /\ PY3 \in BOOLEAN
    /\ document = <<>>
    /\ parts \in SeqsOver(AllDocuments, MaxDocs)
    /\ \E leftover \in SeqsOver(TailBytes, MaxLeftover) :
          /\ data = EncodeAll(parts) \o leftover
          /\ origin = IF leftover = <<>> THEN "concat" ELSE "leftover"
    /\ pc = "encoded"
    /\ outcome = NoOutcome
    /\ docs = <<>>
    /\ position = 0

\* docs = []; position = 0
DecodeAllStart ==
    /\ pc = "encoded"
    /\ pc' = "loop"
    /\ docs' = <<>>
    /\ position' = 0
    /\ UNCHANGED <<PY3, document, parts, data, origin, outcome>>

\* The effect of one iteration of the loop of decode_all
Iterated(r) ==
    IF r.err = "none"
    THEN /\ docs' = Append(docs, r.value)
         /\ position' = r.position
         /\ UNCHANGED <<pc, outcome>>
    ELSE /\ pc' = IF r.err = "nontermination" THEN "hung" ELSE "raised"
         /\ outcome' = [op |-> "decode_all", err |-> r.err, value |-> <<>>]
         /\ UNCHANGED <<docs, position>>

\* while position < end: one document.  The documents collected are capped
\* so that a loop that does not advance stays finite.
DecodeAllStep ==
    /\ pc = "loop"
    /\ position < AllEnd(data)
    /\ Len(docs) <= MaxDocs
    /\ Iterated(DecodeAllBody(data, position, OLD_UUID_SUBTYPE))
    /\ UNCHANGED <<PY3, document, parts, data, origin>>

\* return docs
DecodeAllReturn ==
    /\ pc = "loop"
    /\ ~(position < AllEnd(data))
    /\ pc' = "done"
    /\ outcome' = [op |-> "decode_all", err |-> "none", value |-> docs]
    /\ UNCHANGED <<PY3, document, parts, data, origin, docs, position>>

NextAll == DecodeAllStart \/ DecodeAllStep \/ DecodeAllReturn

SpecAll == InitAll /\ [][NextAll]_vars

(***************************************************************************)
(* Equality of Python values, as == decides it for the values of a         *)
(* document                                                                *)
(***************************************************************************)
IntTypes == {"int", "long", "BSONInt64"}

RECURSIVE ValueEq(_, _)
RECURSIVE DictEq(_, _)
\* a == b: integers by value, mappings by their items whatever the order,
\* sequences item by item
ValueEq(a, b) ==
    IF a.t \in IntTypes THEN b.t \in IntTypes /\ a.v = b.v
    ELSE IF a.t # b.t THEN FALSE
    ELSE IF a.t = "dict" THEN DictEq(a.v, b.v)
    ELSE IF a.t = "list"
    THEN /\ Len(a.v) = Len(b.v)
         /\ \A i \in 1..Len(a.v) : ValueEq(a.v[i], b.v[i])
    ELSE IF a.t \in {"str", "bool"} THEN a.v = b.v
    ELSE a.t = "None"

DictEq(a, b) ==
    /\ Len(a) = Len(b)
    /\ \A i \in 1..Len(a) :
          /\ HasKey(b, a[i][1])
          /\ ValueEq(a[i][2], GetItem(b, a[i][1]))

RECURSIVE Plain(_)
\* A value built from in-range integers, text, booleans, null, documents
\* and sequences
Plain(value) ==
    IF value.t \in {"int", "long"}
    THEN ~(IntGreater(value.v, MAX_INT64) \/ IntLess(value.v, MIN_INT64))
    ELSE IF value.t = "dict"
    THEN \A i \in 1..Len(value.v) :
            /\ \A j \in 1..Len(value.v[i][1]) : value.v[i][1][j] # 0
            /\ Plain(value.v[i][2])
    ELSE IF value.t = "list" THEN \A i \in 1..Len(value.v) : Plain(value.v[i])
    ELSE value.t \in {"str", "bool", "None"}

RECURSIVE NoRefInside(_, _)
\* No document below the top level has the key "$ref".
NoRefInside(value, top_level) ==
    IF value.t = "dict"
    THEN /\ top_level \/ ~HasKey(value.v, KeyRef)
         /\ \A i \in 1..Len(value.v) : NoRefInside(value.v[i][2], FALSE)
    ELSE IF value.t = "list"
    THEN \A i \in 1..Len(value.v) : NoRefInside(value.v[i], FALSE)
    ELSE TRUE

\* BSON(BSON.encode(document)).decode() has returned.
RoundTripDone ==
    origin = "encode" /\ pc = "done" /\ outcome.op = "decode"

\* The document as a value
Doc == [t |-> "dict", v |-> document]

WireInt32(b, p) ==
    b[p] + 256 * b[p + 1] + 65536 * b[p + 2] + 16777216 * b[p + 3]

RECURSIVE WireNul(_, _)
\* The first index from p on that holds a NUL, or 0
WireNul(b, p) ==
    IF p > Len(b) THEN 0 ELSE IF b[p] = 0 THEN p ELSE WireNul(b, p + 1)

\* The index after a C string that starts at p, or 0
WireAfterNul(b, p) ==
    IF p = 0 \/ WireNul(b, p) = 0 THEN 0 ELSE WireNul(b, p) + 1

\* The index after a payload whose int32 at q counts all of it but extra
\* bytes, or 0
WireSized(b, q, extra) ==
    IF q + 3 > Len(b) \/ b[q + 3] >= 128 THEN 0
    ELSE q + extra + WireInt32(b, q)

\* The index after the payload of an element of the given tag, or 0
WirePayloadEnd(b, tag, q) ==
    IF tag \in {1, 9, 17, 18} THEN q + 8
    ELSE IF tag \in {2, 13, 14} THEN WireSized(b, q, 4)
    ELSE IF tag \in {3, 4, 15} THEN WireSized(b, q, 0)
    ELSE IF tag = 5 THEN WireSized(b, q, 5)
    ELSE IF tag \in {6, 10, 127, 255} THEN q
    ELSE IF tag = 7 THEN q + 12
    ELSE IF tag = 8 THEN q + 1
    ELSE IF tag = 11 THEN WireAfterNul(b, WireAfterNul(b, q))
    ELSE IF tag = 12
    THEN (IF WireSized(b, q, 4) = 0 THEN 0 ELSE WireSized(b, q, 4) + 12)
    ELSE IF tag = 16 THEN q + 4
    ELSE 0

NoElement == [tag |-> 0, key |-> <<>>, start |-> 0, next |-> 0]

\* The element at p whose key ends with the NUL at k
WireElementAt(b, p, k) ==
    IF k = 0 \/ WirePayloadEnd(b, b[p], k + 1) = 0 THEN NoElement
    ELSE [tag |-> b[p], key |-> SubSeq(b, p + 1, k - 1), start |-> k + 1,
          next |-> WirePayloadEnd(b, b[p], k + 1)]

RECURSIVE WireElements(_, _, _)
\* The elements that follow one
WireRest(b, el, e) ==
    IF el.tag = 0 \/ el.next > e THEN <<NoElement>>
    ELSE <<el>> \o WireElements(b, el.next, e)

\* The elements from p up to the trailing NUL at e; NoElement stands for
\* one that cannot be read.
WireElements(b, p, e) ==
    IF p = e THEN <<>>
    ELSE IF p > e THEN <<NoElement>>
    ELSE WireRest(b, WireElementAt(b, p, WireNul(b, p + 1)), e)

\* Where the envelope inside an element starts: after the two lengths and
\* the code of a code with scope, else at the payload
WireInner(b, el) ==
    IF el.tag = 15 THEN el.start + 8 + WireInt32(b, el.start + 4)
    ELSE el.start

Nesting == {3, 4, 15}

RECURSIVE WireEnvelopeOk(_, _, _)
\* Every envelope inside the elements is consistent.
WireElementsOk(b, els) ==
    \A i \in 1..Len(els) :
        /\ els[i].tag # 0
        /\ els[i].tag \in Nesting
              => WireEnvelopeOk(b, WireInner(b, els[i]), els[i].next - 1)

\* b[p .. e] is an envelope: its int32 counts the bytes from p through e,
\* b[e] is NUL, and the same holds of every envelope inside it.
WireEnvelopeOk(b, p, e) ==
    /\ e - p + 1 >= 5
    /\ b[p + 3] < 128
    /\ WireInt32(b, p) = e - p + 1
    /\ b[e] = 0
    /\ WireElementsOk(b, WireElements(b, p + 4, e))

\* BSON.encode has returned a buffer and data still holds it.
EncodeReturned == origin = "encode" /\ pc \in {"encoded", "done"}

\* C2: the output of encode starts with its own length as an int32 and
\* ends with a NUL byte, and so does the envelope of every nested document,
\* array and code scope inside it.
C2_EnvelopesConsistent ==
    EncodeReturned => WireEnvelopeOk(data, 1, Len(data))

\* The tags of the elements of the envelope b
WireTags(b) ==
    {WireElements(b, 5, Len(b))[i].tag :
        i \in 1..Len(WireElements(b, 5, Len(b)))}

\* C2 witness: an output that holds a nested document, an array and a code
\* scope, all consistent.
C2_Witness ==
    /\ EncodeReturned
    /\ Nesting \subseteq WireTags(data)
    /\ WireEnvelopeOk(data, 1, Len(data))

(***************************************************************************)
(* Order of the elements                                                   *)
(***************************************************************************)
RECURSIVE KeysOf(_)
\* The encoded keys of a mapping in iteration order
KeysOf(dict) ==
    IF dict = <<>> THEN <<>>
    ELSE <<Utf8Encode(Head(dict)[1])>> \o KeysOf(Tail(dict))

\* The order the elements are to have: "_id" first at the top level
EmitOrder(dict, top_level) ==
    IF top_level /\ HasKey(dict, KeyId)
    THEN <<Utf8Encode(KeyId)>> \o KeysOf(Without(dict, KeyId))
    ELSE KeysOf(dict)

RECURSIVE WireKeys(_)
WireKeys(els) ==
    IF els = <<>> THEN <<>> ELSE <<Head(els).key>> \o WireKeys(Tail(els))

\* The mapping a value is written as
NestedOf(value) ==
    IF value.t = "dict" THEN value.v
    ELSE IF value.t = "list" THEN AsDict(value.v)
    ELSE IF value.t = "Code" THEN value.scope
    ELSE as_doc(value)

RECURSIVE OrderOk(_, _, _, _, _)
\* The elements have the keys of the mapping in the order due, and so do
\* the elements of every envelope inside them.
OrderOkElements(b, els, dict, top_level) ==
    /\ WireKeys(els) = EmitOrder(dict, top_level)
    /\ \A i \in 1..Len(els) :
          els[i].tag \in Nesting
              => OrderOk(b, WireInner(b, els[i]), els[i].next - 1,
                         NestedOf(dict[CHOOSE j \in 1..Len(dict) :
                                         Utf8Encode(dict[j][1]) = els[i].key][2]),
                         FALSE)

OrderOk(b, p, e, dict, top_level) ==
    OrderOkElements(b, WireElements(b, p + 4, e), dict, top_level)

\* C6: a top-level "_id" is the first element of the output and is
\* written once, the other top-level elements follow in iteration order,
\* and nested documents, array items and code scopes keep their iteration
\* order with no "_id" moved.
C6_IdFirstAtTopOnly ==
    EncodeReturned => OrderOk(data, 1, Len(data), document, TRUE)

\* C6 witness: "_id" is neither the first key of the document nor the first
\* key of a document, an array item and a code scope nested in it.
C6_Witness ==
    /\ EncodeReturned
    /\ Len(document) = 3 /\ document[3][1] = KeyId
    /\ document[1][2].t = "list" /\ document[1][2].v[1] = [t |-> "dict", v |-> IdLast]
    /\ document[2][2].t = "Code" /\ document[2][2].scope = IdLast
    /\ OrderOk(data, 1, Len(data), document, TRUE)

(***************************************************************************)
(* Width of an encoded integer                                             *)
(***************************************************************************)
\* 2^31 - 1, -2^31, 2^63 - 1 and -2^63, digit by digit
Int32Top == PyInt(FALSE, <<255, 255, 255, 127>>)

Int32Bottom == PyInt(TRUE, <<0, 0, 0, 128>>)

Int64Top == PyInt(FALSE, <<255, 255, 255, 255, 255, 255, 255, 127>>)

Int64Bottom == PyInt(TRUE, <<0, 0, 0, 0, 0, 0, 0, 128>>)

InInt32(v) == ~IntLess(v, Int32Bottom) /\ ~IntGreater(v, Int32Top)

InInt64(v) == ~IntLess(v, Int64Bottom) /\ ~IntGreater(v, Int64Top)

\* encode was called on a document whose one value is a plain integer.
IntEncoded ==
    /\ origin = "encode" /\ outcome.op = "encode"
    /\ Len(document) = 1 /\ document[1][1] = KeyA
    /\ document[1][2].t = "int"

\* The one element of the output has the tag and a payload of the width
\* that reads back, least significant byte first and signed, as v.
EmitsInt(tag, fmt, v) ==
    /\ outcome.err = "none"
    /\ Len(data) = 4 + 1 + 2 + FormatWidth(fmt) + 1
    /\ SubSeq(data, 5, 5) = tag
    /\ struct_unpack(fmt, SubSeq(data, 8, 7 + FormatWidth(fmt))).value = v

C9_DBRefNeedsRefAndId ==
    (RoundTripDone /\ outcome.err = "none") =>
        \A i \in 1..Len(document) :
            document[i][2].t = "dict" =>
                IF HasKey(document[i][2].v, KeyRef)
                   /\ HasKey(document[i][2].v, KeyDollarId)
                THEN GetItem(outcome.value, document[i][1]).t = "DBRef"
                ELSE /\ GetItem(outcome.value, document[i][1]).t = "dict"
                     /\ Len(GetItem(outcome.value, document[i][1]).v)
                            = Len(document[i][2].v)

(***************************************************************************)
(* Damaged and hand-made buffers                                           *)
(***************************************************************************)
\* BSON(data).decode() has returned or raised on the buffer of the origin.
DecodeDone(from) == origin = from /\ pc = "done" /\ outcome.op = "decode"

\* C3 (as stated): decoding a proper prefix of an encoded document, of any
\* length from 0 on, fails with InvalidBSON and with no other kind of
\* error.
C3_TruncationRaisesInvalidBSON ==
    DecodeDone("truncate") => outcome.err = "InvalidBSON"

\* C4 (as stated): with L the int32 at the head of the buffer, decode
\* fails with InvalidBSON exactly when the buffer is shorter than L or its
\* byte L - 1 is not NUL; a well-formed document followed by more bytes
\* decodes to that document.
C4_DecodeAcceptsTrailingBytes ==
    /\ (Len(data) >= 4 /\ (DecodeDone("truncate") \/ DecodeDone("tail")
                           \/ DecodeDone("encode")))
          => (outcome.err = "InvalidBSON"
                <=> (\/ Len(data) < WireInt32(data, 1)
                     \/ data[Min(WireInt32(data, 1), Len(data))] # 0))
    /\ DecodeDone("tail")
          => (outcome.err = "none" /\ DictEq(document, outcome.value))

\* C8 (as stated): an element whose tag is not in the dispatch table makes
\* BSON.decode fail with InvalidBSON and with no other kind of error.
C8_UnknownTagRaisesInvalidBSON ==
    (DecodeDone("raw") /\ ~KnownTag(SubSeq(data, 5, 5)))
        => outcome.err = "InvalidBSON"

\* The tags of the readers of fixed or declared size: double, string,
\* binary, ObjectId, boolean, datetime, int32, timestamp, int64
SizedTags == {1, 2, 5, 7, 8, 9, 16, 17, 18}

\* The payload of the element at the head of the buffer, which starts at
\* index 8 after the int32, the tag and the key "a", does not end before
\* the trailing NUL of the envelope.
PayloadShort ==
    \/ WirePayloadEnd(data, data[5], 8) = 0
    \/ WirePayloadEnd(data, data[5], 8) > Len(data)

\* C10 (as stated): when the payload an element declares or requires
\* extends past the end of the buffer, the decode fails with InvalidBSON;
\* no reader returns a value built from fewer bytes.
C10_ShortPayloadRaisesInvalidBSON ==
    (DecodeDone("raw") /\ data[5] \in SizedTags /\ PayloadShort)
        => outcome.err = "InvalidBSON"

(***************************************************************************)
(* decode_all                                                              *)
(***************************************************************************)
\* decode_all(data) has returned or raised.
DecodeAllDone == outcome.op = "decode_all" /\ pc \in {"done", "raised"}

\* C5 (as stated): decode_all returns the documents in order when the
\* buffer is exactly their concatenation, and raises InvalidBSON when bytes
\* are left over after the last document, a buffer of 1 to 3 bytes
\* included.
C5_DecodeAllExactOrInvalidBSON ==
    DecodeAllDone =>
        IF origin = "concat"
        THEN /\ outcome.err = "none"
             /\ Len(outcome.value) = Len(parts)
             /\ \A i \in 1..Len(parts) : DictEq(parts[i], outcome.value[i])
        ELSE outcome.err = "InvalidBSON"

(***************************************************************************)
(* Coverage of the inner slice, and calls that never return                *)
(***************************************************************************)
\* A call on a hand-made buffer has ended.
RawDone == origin \in {"raw", "stray", "backward"} /\ pc = "done"

\* The elements read from index 5 on end exactly at the trailing NUL of
\* the envelope: every byte of the inner slice belongs to an element.
SliceCovered ==
    \A i \in 1..Len(WireElements(data, 5, Len(data))) :
        WireElements(data, 5, Len(data))[i].tag # 0

\* C11 (as stated): a document decode succeeds, and is_valid returns true,
\* only if the elements read from the inner slice cover it exactly; a
\* buffer such as 06 00 00 00 XX 00, whose inner slice holds a byte that
\* belongs to no element, is rejected.
C11_DecodeCoversInnerSlice ==
    (/\ RawDone
     /\ \/ outcome.op = "decode" /\ outcome.err = "none"
        \/ outcome.op = "is_valid" /\ outcome.value = "True")
        => SliceCovered

\* C12 (as stated): BSON.decode and is_valid return or raise on every
\* buffer, since no length field read from the input leaves the position
\* of the element loop unchanged or moves it backwards.
C12_DecodeTerminates ==
    RawDone =>
        /\ outcome.op = "decode" => outcome.err # "nontermination"
        /\ outcome.op = "is_valid" => outcome.value # "nontermination"

====
